---------------------------- MODULE Spec2Model ----------------------------
(***************************************************************************)
(* Bonkitor (src/main.rs): an iced Application holding an optional file    *)
(* path, a text_editor::Content and the last error.  update() handles six  *)
(* messages; Open, Save and the constructor schedule async operations      *)
(* (pick_file, save_file, load_file) with Command::perform, whose results   *)
(* come back as FileOpened / FileSaved messages.                           *)
(*                                                                         *)
(* The async functions are modelled by their await points: a task waits    *)
(* in "dialog" for the native dialog, in "io" for the filesystem call, and *)
(* in "ready" with its result until the runtime hands the message to       *)
(* update().  Files hold bytes; read_to_string decodes them as UTF-8 and    *)
(* fs::write stores the UTF-8 encoding of the text.  Neither is one step:  *)
(* fs::write first creates or truncates the file and then writes the       *)
(* bytes, so a save passes through "write" with the file empty;            *)
(* read_to_string opens the file and then calls read until a call returns  *)
(* nothing, so a load passes through "size" (the file is open, its size    *)
(* not yet asked for) and "read" with the bytes gathered so far.  Every    *)
(* file call can fail with an error kind the operating system chooses.     *)
(***************************************************************************)
EXTENDS Integers, Sequences, FiniteSets, TLC

\* ----------------------------------------------------------------- bounds
\* Longest text (in characters) the Edit action may build.
MaxLen == 2
\* Operations scheduled in one run, the startup load included.
MaxOps == 2
\* File calls the operating system refuses in one run (a missing file and
\* bytes that are not UTF-8 are no refusals and are not counted).
MaxFaults == 1

\* ------------------------------------------------------------ value sets
\* Characters of a text: 'a' (U+0061) and 'e-acute' (U+00E9).
Chars == {97, 233}

NoPath == "None"
\* default_file(): CARGO_MANIFEST_DIR/src/main.rs
default_file == "src/main.rs"
\* A path whose name is not UTF-8 (the byte E9 alone): Path::to_str is None.
NonUtf8Path == "caf<E9>.txt"
\* Paths a dialog can return or a file can live at.
Paths == {default_file, NonUtf8Path}

\* Path::to_str: the path as a &str, None when its bytes are not UTF-8.
to_str(p) == IF p = NonUtf8Path THEN NoPath ELSE p

OpIds == 1..MaxOps

\* enum Error { DialogClosed, IOFailed(io::ErrorKind) }; NoError is Option::None.
NoError == [tag |-> "None", kind |-> ""]
DialogClosed == [tag |-> "DialogClosed", kind |-> ""]
IOFailed(kind) == [tag |-> "IOFailed", kind |-> kind]

\* The variants of io::ErrorKind.
ErrorKinds ==
    {"NotFound", "PermissionDenied", "ConnectionRefused", "ConnectionReset",
     "HostUnreachable", "NetworkUnreachable", "ConnectionAborted",
     "NotConnected", "AddrInUse", "AddrNotAvailable", "NetworkDown",
     "BrokenPipe", "AlreadyExists", "WouldBlock", "NotADirectory",
     "IsADirectory", "DirectoryNotEmpty", "ReadOnlyFilesystem",
     "FilesystemLoop", "StaleNetworkFileHandle", "InvalidInput", "InvalidData",
     "TimedOut", "WriteZero", "StorageFull", "NotSeekable", "QuotaExceeded",
     "FileTooLarge", "ResourceBusy", "ExecutableFileBusy", "Deadlock",
     "CrossesDevices", "TooManyLinks", "InvalidFilename",
     "ArgumentListTooLong", "Interrupted", "Unsupported", "UnexpectedEof",
     "OutOfMemory", "InProgress", "Other", "Uncategorized"}

\* The kinds a failed system call can come back with: the operating system
\* (the filesystem driver behind the path) chooses the error number, and the
\* library decodes every number to a kind, Uncategorized when it knows no
\* better.  No error number decodes to InvalidData, WriteZero, UnexpectedEof
\* or Other, and the library repeats an interrupted open, read or write
\* instead of returning Interrupted.
OsKinds ==
    ErrorKinds \ {"InvalidData", "WriteZero", "UnexpectedEof", "Other",
                  "Interrupted"}

\* What the file calls of the async functions can fail with, whatever the
\* file holds; the functions pass any kind on (error.kind()).
\* Opening a file to read it: the system call's kinds (InvalidInput also for
\* a path holding a NUL byte), and Other when the blocking task that runs
\* the call is lost.
OpenRefusals == OsKinds \cup {"Other"}
\* A read call of the open file (OutOfMemory also when the buffer cannot
\* grow).
ReadRefusals == OsKinds
\* Creating or truncating a file: as for opening.
CreateRefusals == OsKinds \cup {"Other"}
\* Writing its bytes: the system call's kinds, and WriteZero when the call
\* takes no byte.
WriteRefusals == OsKinds \cup {"WriteZero"}

\* ------------------------------------------------------------- UTF-8
\* The UTF-8 encoding of one character (one- and two-byte forms).
EncodeChar(c) ==
    IF c < 128 THEN <<c>> ELSE <<192 + (c \div 64), 128 + (c % 64)>>

RECURSIVE Encode(_)
\* String -> bytes, as fs::write stores a String.
Encode(s) == IF s = <<>> THEN <<>> ELSE EncodeChar(Head(s)) \o Encode(Tail(s))

IsCont(b) == b >= 128 /\ b <= 191

RECURSIVE ValidUtf8(_)
\* Whether a byte sequence is well-formed UTF-8 (one- and two-byte forms).
ValidUtf8(b) ==
    IF b = <<>> THEN TRUE
    ELSE IF Head(b) < 128 THEN ValidUtf8(Tail(b))
    ELSE IF Head(b) >= 194 /\ Head(b) <= 223
         THEN Len(b) >= 2 /\ IsCont(b[2]) /\ ValidUtf8(Tail(Tail(b)))
    ELSE FALSE

RECURSIVE Decode(_)
\* bytes -> String for well-formed input.
Decode(b) ==
    IF b = <<>> THEN <<>>
    ELSE IF Head(b) < 128 THEN <<Head(b)>> \o Decode(Tail(b))
    ELSE <<(Head(b) - 192) * 64 + (b[2] - 128)>> \o Decode(Tail(Tail(b)))

\* ------------------------------------------------------ text_editor::Content
\* The widget's buffer is modelled by the text it holds; the cursor is kept
\* at the end of the text, so an insertion appends and Backspace removes the
\* last character.
\* Content::new(): an empty buffer.
ContentNew == <<>>
\* Content::with(&text): a buffer holding text.
ContentWith(t) == t
\* Content::text()
ContentText(c) == c

\* text_editor::Action values the widget hands to on_edit: insertions,
\* Backspace, and cursor movement (which changes no text).
Actions ==
    {[op |-> "Insert", ch |-> c] : c \in Chars}
        \cup {[op |-> o, ch |-> 0] : o \in {"Backspace", "Move"}}

\* Content::edit(action)
ContentEdit(c, a) ==
    CASE a.op = "Insert" -> Append(c, a.ch)
      [] a.op = "Backspace" -> IF c = <<>> THEN c ELSE SubSeq(c, 1, Len(c) - 1)
      [] a.op = "Move" -> c

\* ------------------------------------------------------------------ state
VARIABLES
    path,      \* Editor.path: Option<PathBuf>
    content,   \* Editor.content: text_editor::Content
    error,     \* Editor.error: Option<Error>
    ops,       \* the operations scheduled with Command::perform, by id
    fs,        \* the filesystem: path -> file
    last,      \* the step taken last (which message, for which op; or a task step)
    faults     \* how many file calls the operating system has refused

vars == <<path, content, error, ops, fs, last, faults>>

NoFile == [exists |-> FALSE, bytes |-> <<>>]
File(b) == [exists |-> TRUE, bytes |-> b]

NoResult == [tag |-> "None", path |-> NoPath, text |-> <<>>, err |-> NoError]
Ok(p, t) == [tag |-> "Ok", path |-> p, text |-> t, err |-> NoError]
Err(e) == [tag |-> "Err", path |-> NoPath, text |-> <<>>, err |-> e]

\* An operation not yet scheduled, and one whose message update() has consumed.
\* arg and text are the arguments of the async function, chosen the path its
\* dialog returned, target the path of the file it has open, hint the file
\* size read_to_string was told, buf the bytes it has gathered and cap the
\* capacity of the buffer holding them, written how many bytes of the text
\* fs::write has stored, shown whether it has shown a dialog, result its
\* output.  whole records whether buf was all the file held at the read call
\* that filled it.
Idle == [kind |-> "none", pc |-> "idle", arg |-> NoPath, text |-> <<>>,
         shown |-> FALSE, chosen |-> NoPath, target |-> NoPath,
         hint |-> 0, buf |-> <<>>, cap |-> 0, whole |-> FALSE, written |-> 0,
         result |-> NoResult, delivered |-> 0]

\* The async function has returned res: of its state only the output is left.
Done(op, res) ==
    [Idle EXCEPT !.kind = op.kind, !.pc = "ready", !.shown = op.shown,
                 !.result = res, !.delivered = op.delivered]

\* The default file at startup: absent, valid UTF-8 ("e-acute" or "aa"), or a
\* truncated sequence.  Every other file is created by a save.
InitFiles == {NoFile, File(<<195, 169>>), File(<<97, 97>>), File(<<195>>)}
InitFs == {f \in [Paths -> InitFiles] : \A p \in Paths \ {default_file} : f[p] = NoFile}

\* A constructor that opens the file picker instead of loading the default file.
LoadOpPicks(p) == [Idle EXCEPT !.kind = "pick", !.pc = "dialog"]

\* Command::perform(load_file(path), Message::FileOpened)
LoadOp(p) == [Idle EXCEPT !.kind = "load", !.pc = "io", !.arg = p]
\* Command::perform(pick_file(), Message::FileOpened)
PickOp == [Idle EXCEPT !.kind = "pick", !.pc = "dialog"]

\* A save_file that asks for a file name every time.
SaveStartAlwaysAsks(p) == "dialog"

\* save_file's first branch: an existing path skips the dialog.
SaveStart(p) == IF p # NoPath THEN "io" ELSE "dialog"
\* Command::perform(save_file(self.path.clone(), text), Message::FileSaved)
SaveOp(p, t) == [Idle EXCEPT !.kind = "save", !.pc = SaveStart(p), !.arg = p, !.text = t]

\* The step taken last: the message update() handled and the operation it
\* scheduled or completed, or "task" for a step of a background task; the
\* edit action (Edit only), whether the completed operation had shown a
\* dialog (completions only), and what tokio::fs::read_to_string or
\* tokio::fs::write returned in this step: "Ok", the kind of its io::Error,
\* or NoReturn when none of them returned.
NoAction == [op |-> "none", ch |-> 0]
NoReturn == "none"
Step(ev, id) == [ev |-> ev, id |-> id, act |-> NoAction, dlg |-> FALSE, ret |-> NoReturn]
Delivery(ev, id, op) == [Step(ev, id) EXCEPT !.dlg = op.shown]
\* A background step in which the file call returned ret.
Returned(ret) == [Step("task", 0) EXCEPT !.ret = ret]

\* Editor::new
Init ==
    /\ path = NoPath
    /\ content = ContentNew
    /\ error = NoError
    /\ ops = [i \in OpIds |-> IF i = 1 THEN LoadOp(default_file) ELSE Idle]
    /\ fs \in InitFs
    /\ last = Step("new", 0)
    /\ faults = 0

\* The next free operation id, or 0 when the run's budget is used up.
FreeId == IF \E i \in OpIds : ops[i].pc = "idle" /\ ops[i].delivered = 0
          THEN CHOOSE i \in OpIds : /\ ops[i].pc = "idle" /\ ops[i].delivered = 0
                                    /\ \A j \in OpIds : (ops[j].pc = "idle" /\ ops[j].delivered = 0) => i <= j
          ELSE 0

\* ------------------------------------------------------- update(): user events
\* An Edit that leaves the error in place.
EditKeepsError ==
    \E a \in Actions :
        /\ a.op = "Insert" => Len(ContentText(content)) < MaxLen
        /\ content' = ContentEdit(content, a)
        /\ last' = [Step("Edit", 0) EXCEPT !.act = a]
        /\ UNCHANGED <<path, error, ops, fs, faults>>

\* Message::Edit(action)
Edit ==
    \E a \in Actions :
        /\ a.op = "Insert" => Len(ContentText(content)) < MaxLen
        /\ content' = ContentEdit(content, a)
        /\ error' = NoError
        /\ last' = [Step("Edit", 0) EXCEPT !.act = a]
        /\ UNCHANGED <<path, ops, fs, faults>>

\* A New that forgets the path.
NewKeepsPath ==
    /\ content' = ContentNew
    /\ last' = Step("New", 0)
    /\ UNCHANGED <<path, error, ops, fs, faults>>

\* A New that also clears the recorded error.
NewClearsError ==
    /\ path' = NoPath
    /\ content' = ContentNew
    /\ error' = NoError
    /\ last' = Step("New", 0)
    /\ UNCHANGED <<ops, fs, faults>>

\* Message::New
New ==
    /\ path' = NoPath
    /\ content' = ContentNew
    /\ last' = Step("New", 0)
    /\ UNCHANGED <<error, ops, fs, faults>>

\* An Open that is refused while another operation is in flight.
OpenWhenIdle ==
    /\ FreeId # 0
    /\ \A i \in OpIds : ops[i].pc = "idle"
    /\ ops' = [ops EXCEPT ![FreeId] = PickOp]
    /\ last' = Step("Open", FreeId)
    /\ UNCHANGED <<path, content, error, fs, faults>>

\* Message::Open
Open ==
    /\ FreeId # 0
    /\ ops' = [ops EXCEPT ![FreeId] = PickOp]
    /\ last' = Step("Open", FreeId)
    /\ UNCHANGED <<path, content, error, fs, faults>>

\* A Save that also clears the recorded error.
SaveClearsError ==
    /\ FreeId # 0
    /\ ops' = [ops EXCEPT ![FreeId] = SaveOp(path, ContentText(content))]
    /\ error' = NoError
    /\ last' = Step("Save", FreeId)
    /\ UNCHANGED <<path, content, fs, faults>>

\* Message::Save
Save ==
    /\ FreeId # 0
    /\ ops' = [ops EXCEPT ![FreeId] = SaveOp(path, ContentText(content))]
    /\ last' = Step("Save", FreeId)
    /\ UNCHANGED <<path, content, error, fs, faults>>

\* ------------------------------------------------- the async functions
\* The operating system refuses a file call: one more of the run's refusals.
Refused == faults < MaxFaults /\ faults' = faults + 1

\* A map_err that forgets which kind the failed call had.
IoFailureOther(kind) == Err(IOFailed("Other"))

\* What load_file and save_file make of a failed file call:
\* .map_err(|error| error.kind()).map_err(Error::IOFailed)?
IoFailure(kind) == Err(IOFailed(kind))

\* async fn load_file(path), once read_to_string has gathered buf: the bytes
\* must be UTF-8, else InvalidData; otherwise Ok((path, contents)).
load_file(p, buf) ==
    IF ~ValidUtf8(buf) THEN IoFailure("InvalidData")
    ELSE Ok(p, Decode(buf))

\* What read_to_string returns for buf, as an io::Result.
ReadReturn(buf) == IF ValidUtf8(buf) THEN "Ok" ELSE "InvalidData"

\* A save_file that falls back to the default file instead of the dialog's.
SaveTargetDefault(op) == IF op.arg # NoPath THEN op.arg ELSE default_file

\* The path save_file writes to: the one it was given, else the dialog's.
SaveTarget(op) == IF op.arg # NoPath THEN op.arg ELSE op.chosen

\* The path load_file is called with: the startup file, or the picked one.
LoadTarget(op) == IF op.kind = "load" THEN op.arg ELSE op.chosen

\* The dialog's answer: .ok_or(Error::DialogClosed)? returns early on None.
AfterDialog(op, choice) ==
    IF choice = NoPath
    THEN Done([op EXCEPT !.shown = TRUE], Err(DialogClosed))
    ELSE [op EXCEPT !.shown = TRUE, !.pc = "io", !.chosen = choice]

\* pick_file: AsyncFileDialog::pick_file().await
PickDialog(i) ==
    /\ ops[i].kind = "pick" /\ ops[i].pc = "dialog"
    /\ \E choice \in Paths \cup {NoPath} :
          ops' = [ops EXCEPT ![i] = AfterDialog(ops[i], choice)]
    /\ last' = Step("task", 0)
    /\ UNCHANGED <<path, content, error, fs, faults>>

\* save_file: AsyncFileDialog::save_file().await
SaveDialog(i) ==
    /\ ops[i].kind = "save" /\ ops[i].pc = "dialog"
    /\ \E choice \in Paths \cup {NoPath} :
          ops' = [ops EXCEPT ![i] = AfterDialog(ops[i], choice)]
    /\ last' = Step("task", 0)
    /\ UNCHANGED <<path, content, error, fs, faults>>

\* load_file: tokio::fs::read_to_string(&path), first the open: a missing
\* file is NotFound, the operating system may refuse, else the file is open.
LoadOpen(i) ==
    /\ ops[i].kind \in {"load", "pick"} /\ ops[i].pc = "io"
    /\ LET p == LoadTarget(ops[i]) IN
       \/ \E k \in OpenRefusals :
             /\ Refused
             /\ ops' = [ops EXCEPT ![i] = Done(@, IoFailure(k))]
             /\ last' = Returned(k)
       \/ /\ ~fs[p].exists
          /\ ops' = [ops EXCEPT ![i] = Done(@, IoFailure("NotFound"))]
          /\ last' = Returned("NotFound")
          /\ faults' = faults
       \/ /\ fs[p].exists
          /\ ops' = [ops EXCEPT ![i] = [@ EXCEPT !.pc = "size", !.target = p]]
          /\ last' = Step("task", 0)
          /\ faults' = faults
    /\ UNCHANGED <<path, content, error, fs>>

\* load_file: read_to_string asks for the size of the open file and reserves
\* a buffer of exactly that capacity.  A size it cannot get counts as
\* unknown, which reads like a size of 0; a buffer it cannot get is
\* OutOfMemory.
LoadSize(i) ==
    /\ ops[i].kind \in {"load", "pick"} /\ ops[i].pc = "size"
    /\ \/ \E h \in {Len(fs[ops[i].target].bytes), 0} :
             /\ ops' = [ops EXCEPT ![i] = [@ EXCEPT !.pc = "read", !.hint = h, !.cap = h]]
             /\ last' = Step("task", 0)
             /\ faults' = faults
       \/ /\ Refused
          /\ ops' = [ops EXCEPT ![i] = Done(@, IoFailure("OutOfMemory"))]
          /\ last' = Returned("OutOfMemory")
    /\ UNCHANGED <<path, content, error, fs>>

\* The bytes asked for in one go when nothing is known to be there.
ProbeSize == 32

\* The capacity of a byte buffer of capacity cap once it must hold need
\* bytes: unchanged if they fit, else at least doubled and at least 8.
Grow(cap, need) ==
    IF need <= cap THEN cap
    ELSE LET twice == IF 2 * cap > need THEN 2 * cap ELSE need
         IN  IF twice < 8 THEN 8 ELSE twice

\* load_file: read_to_string's read calls.  While the buffer is as full as
\* the size hint made it, a call probes for ProbeSize bytes and the buffer
\* grows to take what came; otherwise a call asks for the buffer's spare
\* capacity (the buffer grows by ProbeSize first if it has none; a file is
\* far shorter than the largest read asked for).  A call gets the bytes the
\* file holds now beyond those gathered, up to the number asked for; a call
\* that gets none ends the read, and the bytes gathered are the contents.
\* The operating system may refuse a call (a directory refuses the first
\* one).
LoadRead(i) ==
    /\ ops[i].kind \in {"load", "pick"} /\ ops[i].pc = "read"
    /\ LET p == ops[i].target
           buf == ops[i].buf
           n == Len(buf)
           probe == (n = ops[i].cap /\ ops[i].cap = ops[i].hint)
           room == IF probe THEN ops[i].cap
                   ELSE IF n = ops[i].cap THEN Grow(ops[i].cap, ops[i].cap + ProbeSize)
                   ELSE ops[i].cap
           asked == IF probe THEN ProbeSize ELSE room - n
           there == Len(fs[p].bytes) - n
           got == IF there <= 0 THEN 0 ELSE IF there < asked THEN there ELSE asked
           read == SubSeq(fs[p].bytes, n + 1, n + got)
       IN  \/ \E k \in ReadRefusals :
                 /\ k = "IsADirectory" => buf = <<>>
                 /\ Refused
                 /\ ops' = [ops EXCEPT ![i] = Done(@, IoFailure(k))]
                 /\ last' = Returned(k)
           \/ /\ got > 0
              /\ ops' = [ops EXCEPT ![i] = [@ EXCEPT !.buf = buf \o read,
                                                     !.cap = Grow(room, n + got),
                                                     !.whole = (buf \o read = fs[p].bytes)]]
              /\ last' = Step("task", 0)
              /\ faults' = faults
           \/ /\ got = 0
              /\ ops' = [ops EXCEPT ![i] = Done(@, load_file(p, buf))]
              /\ last' = Returned(ReadReturn(buf))
              /\ faults' = faults
    /\ UNCHANGED <<path, content, error, fs>>

\* save_file: tokio::fs::write(&path, text), first half: the file is created
\* or truncated, unless the operating system refuses.
SaveCreate(i) ==
    /\ ops[i].kind = "save" /\ ops[i].pc = "io"
    /\ LET p == SaveTarget(ops[i]) IN
       \/ /\ fs' = [fs EXCEPT ![p] = File(<<>>)]
          /\ ops' = [ops EXCEPT ![i] = [@ EXCEPT !.pc = "write", !.target = p]]
          /\ last' = Step("task", 0)
          /\ faults' = faults
       \/ /\ fs' = fs
          /\ Refused
          /\ \E k \in CreateRefusals :
                /\ ops' = [ops EXCEPT ![i] = Done(@, IoFailure(k))]
                /\ last' = Returned(k)
    /\ UNCHANGED <<path, content, error>>

\* What a file holding cur holds once bytes have been written at offset off,
\* as a handle opened by File::create writes them: the bytes replace what was
\* there, anything beyond them stays, and a file that has become shorter
\* than off is filled up with zero bytes.
Overlay(cur, off, bytes) ==
    LET full == IF Len(cur) < off THEN cur \o [j \in 1..(off - Len(cur)) |-> 0] ELSE cur
    IN  SubSeq(full, 1, off) \o bytes \o SubSeq(full, off + Len(bytes) + 1, Len(full))

\* A save_file that writes the document as it is when the write runs.
SaveWriteCurrent(i) ==
    /\ ops[i].kind = "save" /\ ops[i].pc = "write"
    /\ LET p == ops[i].target
           bytes == Encode(ContentText(content))
           w == ops[i].written
           rest == Len(bytes) - w
       IN  \/ /\ rest <= 0
              /\ fs' = fs
              /\ ops' = [ops EXCEPT ![i] = Done(@, Ok(p, <<>>))]
              /\ last' = Returned("Ok")
              /\ faults' = faults
           \/ \E n \in 1..rest :
                 /\ fs' = [fs EXCEPT ![p] = File(Overlay(@.bytes, w, SubSeq(bytes, w + 1, w + n)))]
                 /\ ops' = [ops EXCEPT ![i] = IF n = rest THEN Done(@, Ok(p, <<>>))
                                              ELSE [@ EXCEPT !.written = w + n]]
                 /\ last' = IF n = rest THEN Returned("Ok") ELSE Step("task", 0)
                 /\ faults' = faults
           \/ \E k \in WriteRefusals :
                 /\ rest > 0
                 /\ Refused
                 /\ fs' = fs
                 /\ ops' = [ops EXCEPT ![i] = Done(@, IoFailure(k))]
                 /\ last' = Returned(k)
    /\ UNCHANGED <<path, content, error>>

\* save_file: tokio::fs::write(&path, text), second half: write_all's loop,
\* one write call a step.  A call stores some of the bytes that are left (at
\* least one, at most all of them) where the last call stopped; with bytes
\* still left the loop goes on, with none left the result is Ok(path).  A
\* call the operating system refuses, or one that stores nothing
\* (WriteZero), ends the save with the error, and the bytes stored so far
\* stay.  An empty text needs no call: the result is Ok(path) at once.
SaveWrite(i) ==
    /\ ops[i].kind = "save" /\ ops[i].pc = "write"
    /\ LET p == ops[i].target
           bytes == Encode(ops[i].text)
           w == ops[i].written
           rest == Len(bytes) - w
       IN  \/ /\ rest = 0
              /\ fs' = fs
              /\ ops' = [ops EXCEPT ![i] = Done(@, Ok(p, <<>>))]
              /\ last' = Returned("Ok")
              /\ faults' = faults
           \/ \E n \in 1..rest :
                 /\ fs' = [fs EXCEPT ![p] = File(Overlay(@.bytes, w, SubSeq(bytes, w + 1, w + n)))]
                 /\ ops' = [ops EXCEPT ![i] = IF n = rest THEN Done(@, Ok(p, <<>>))
                                              ELSE [@ EXCEPT !.written = w + n]]
                 /\ last' = IF n = rest THEN Returned("Ok") ELSE Step("task", 0)
                 /\ faults' = faults
           \/ \E k \in WriteRefusals :
                 /\ rest > 0
                 /\ Refused
                 /\ fs' = fs
                 /\ ops' = [ops EXCEPT ![i] = Done(@, IoFailure(k))]
                 /\ last' = Returned(k)
    /\ UNCHANGED <<path, content, error>>

\* --------------------------------------------- update(): completion events
\* A runtime that leaves the message in place, to be handed over again.
ConsumedStays(op) == [op EXCEPT !.delivered = IF @ < 2 THEN @ + 1 ELSE @]

\* The operation's message has been consumed by update().
Consumed(op) == [Idle EXCEPT !.delivered = op.delivered + 1]

Ready(i, kinds, tag) ==
    /\ ops[i].kind \in kinds /\ ops[i].pc = "ready" /\ ops[i].result.tag = tag

\* A FileOpened(Ok) handler that keeps a document edited in the meantime.
FileOpenedOkIfUntouched(i) ==
    /\ Ready(i, {"load", "pick"}, "Ok")
    /\ path' = ops[i].result.path
    /\ content' = IF content = ContentNew THEN ContentWith(ops[i].result.text)
                  ELSE content
    /\ ops' = [ops EXCEPT ![i] = Consumed(@)]
    /\ last' = Delivery("FileOpenedOk", i, ops[i])
    /\ UNCHANGED <<error, fs, faults>>

\* Message::FileOpened(Ok((path, content)))
FileOpenedOk(i) ==
    /\ Ready(i, {"load", "pick"}, "Ok")
    /\ path' = ops[i].result.path
    /\ content' = ContentWith(ops[i].result.text)
    /\ ops' = [ops EXCEPT ![i] = Consumed(@)]
    /\ last' = Delivery("FileOpenedOk", i, ops[i])
    /\ UNCHANGED <<error, fs, faults>>

\* A FileOpened(Err) handler that also drops the open document.
FileOpenedErrClears(i) ==
    /\ Ready(i, {"load", "pick"}, "Err")
    /\ error' = ops[i].result.err
    /\ path' = NoPath
    /\ content' = ContentNew
    /\ ops' = [ops EXCEPT ![i] = Consumed(@)]
    /\ last' = Delivery("FileOpenedErr", i, ops[i])
    /\ UNCHANGED <<fs, faults>>

\* Message::FileOpened(Err(error))
FileOpenedErr(i) ==
    /\ Ready(i, {"load", "pick"}, "Err")
    /\ error' = ops[i].result.err
    /\ ops' = [ops EXCEPT ![i] = Consumed(@)]
    /\ last' = Delivery("FileOpenedErr", i, ops[i])
    /\ UNCHANGED <<path, content, fs, faults>>

\* A FileSaved(Ok) handler that keeps the path it had.
FileSavedOkKeepsPath(i) ==
    /\ Ready(i, {"save"}, "Ok")
    /\ ops' = [ops EXCEPT ![i] = Consumed(@)]
    /\ last' = Delivery("FileSavedOk", i, ops[i])
    /\ UNCHANGED <<path, content, error, fs, faults>>

\* Message::FileSaved(Ok(path))
FileSavedOk(i) ==
    /\ Ready(i, {"save"}, "Ok")
    /\ path' = ops[i].result.path
    /\ ops' = [ops EXCEPT ![i] = Consumed(@)]
    /\ last' = Delivery("FileSavedOk", i, ops[i])
    /\ UNCHANGED <<content, error, fs, faults>>

\* A FileSaved(Err) handler that adopts the path the dialog returned.
FileSavedErrSetsPath(i) ==
    /\ Ready(i, {"save"}, "Err")
    /\ error' = ops[i].result.err
    /\ path' = ops[i].chosen
    /\ ops' = [ops EXCEPT ![i] = Consumed(@)]
    /\ last' = Delivery("FileSavedErr", i, ops[i])
    /\ UNCHANGED <<content, fs, faults>>

\* Message::FileSaved(Err(error))
FileSavedErr(i) ==
    /\ Ready(i, {"save"}, "Err")
    /\ error' = ops[i].result.err
    /\ ops' = [ops EXCEPT ![i] = Consumed(@)]
    /\ last' = Delivery("FileSavedErr", i, ops[i])
    /\ UNCHANGED <<path, content, fs, faults>>

\* ------------------------------------------------------------------ view()
\* io::ErrorKind's Display text (error.to_string()), one arm per variant.
KindText(k) ==
    CASE k = "NotFound" -> "entity not found"
      [] k = "PermissionDenied" -> "permission denied"
      [] k = "ConnectionRefused" -> "connection refused"
      [] k = "ConnectionReset" -> "connection reset"
      [] k = "HostUnreachable" -> "host unreachable"
      [] k = "NetworkUnreachable" -> "network unreachable"
      [] k = "ConnectionAborted" -> "connection aborted"
      [] k = "NotConnected" -> "not connected"
      [] k = "AddrInUse" -> "address in use"
      [] k = "AddrNotAvailable" -> "address not available"
      [] k = "NetworkDown" -> "network down"
      [] k = "BrokenPipe" -> "broken pipe"
      [] k = "AlreadyExists" -> "entity already exists"
      [] k = "WouldBlock" -> "operation would block"
      [] k = "NotADirectory" -> "not a directory"
      [] k = "IsADirectory" -> "is a directory"
      [] k = "DirectoryNotEmpty" -> "directory not empty"
      [] k = "ReadOnlyFilesystem" -> "read-only filesystem or storage medium"
      [] k = "FilesystemLoop" -> "filesystem loop or indirection limit (e.g. symlink loop)"
      [] k = "StaleNetworkFileHandle" -> "stale network file handle"
      [] k = "InvalidInput" -> "invalid input parameter"
      [] k = "InvalidData" -> "invalid data"
      [] k = "TimedOut" -> "timed out"
      [] k = "WriteZero" -> "write zero"
      [] k = "StorageFull" -> "no storage space"
      [] k = "NotSeekable" -> "seek on unseekable file"
      [] k = "QuotaExceeded" -> "quota exceeded"
      [] k = "FileTooLarge" -> "file too large"
      [] k = "ResourceBusy" -> "resource busy"
      [] k = "ExecutableFileBusy" -> "executable file busy"
      [] k = "Deadlock" -> "deadlock"
      [] k = "CrossesDevices" -> "cross-device link or rename"
      [] k = "TooManyLinks" -> "too many links"
      [] k = "InvalidFilename" -> "invalid filename"
      [] k = "ArgumentListTooLong" -> "argument list too long"
      [] k = "Interrupted" -> "operation interrupted"
      [] k = "Unsupported" -> "unsupported"
      [] k = "UnexpectedEof" -> "unexpected end of file"
      [] k = "OutOfMemory" -> "out of memory"
      [] k = "InProgress" -> "in progress"
      [] k = "Other" -> "other error"
      [] k = "Uncategorized" -> "uncategorized error"

\* view(): the status text, and what it stands for.  Without an I/O error
\* on record it is the path as a &str, or "New file" when there is no path
\* or the path is not UTF-8.
status_bar(e, p) ==
    IF e.tag = "IOFailed" THEN [shows |-> "error", text |-> KindText(e.kind)]
    ELSE IF p # NoPath /\ to_str(p) # NoPath THEN [shows |-> "path", text |-> to_str(p)]
    ELSE [shows |-> "label", text |-> "New file"]

\* ------------------------------------------------------------ specification
\* The operations in flight: scheduled, completion not yet handed to update().
InFlight ==
    {i \in OpIds : ops[i].pc \in {"dialog", "io", "size", "read", "write", "ready"}}

\* This step hands operation i's completion to update().
Delivers(i) == ops[i].pc = "ready" /\ ops'[i].delivered = ops[i].delivered + 1

Next ==
    \/ Edit
    \/ New
    \/ Open
    \/ Save
    \/ \E i \in OpIds : PickDialog(i)
    \/ \E i \in OpIds : SaveDialog(i)
    \/ \E i \in OpIds : LoadOpen(i)
    \/ \E i \in OpIds : LoadSize(i)
    \/ \E i \in OpIds : LoadRead(i)
    \/ \E i \in OpIds : SaveCreate(i)
    \/ \E i \in OpIds : SaveWrite(i)
    \/ \E i \in OpIds : FileOpenedOk(i)
    \/ \E i \in OpIds : FileOpenedErr(i)
    \/ \E i \in OpIds : FileSavedOk(i)
    \/ \E i \in OpIds : FileSavedErr(i)

Spec == Init /\ [][Next]_vars

\* The next step of operation i: its dialog is answered, its file call
\* returns, or the runtime hands its message to update().
OpStep(i) ==
    \/ PickDialog(i) \/ SaveDialog(i) \/ LoadOpen(i) \/ LoadSize(i) \/ LoadRead(i)
    \/ SaveCreate(i) \/ SaveWrite(i)
    \/ FileOpenedOk(i) \/ FileOpenedErr(i) \/ FileSavedOk(i) \/ FileSavedErr(i)

\* The editor started where the default file does not exist.
FairInit == Init /\ fs[default_file] = NoFile

\* Background tasks run to completion, dialogs are answered, and the runtime
\* hands every produced message to update().  No step of an operation waits
\* for what a file holds, so the runs start from one filesystem: the default
\* file is missing, and a save can create it before the startup load opens
\* it.
FairSpec == FairInit /\ [][Next]_vars /\ \A i \in OpIds : WF_vars(OpStep(i))

\* ------------------------------------------------------------------ claims

\* C1: after the New event is processed, the document is empty and the path
\* is None, whatever the state was before.
C1_NewResets ==
    last.ev = "New" => (path = NoPath /\ ContentText(content) = <<>> /\ content = ContentNew)

\* New processed after the startup load of a valid default file was delivered.
C1_Witness ==
    /\ last.ev = "New"
    /\ ops[1].delivered = 1
    /\ fs[default_file] = File(<<195, 169>>)
    /\ error = NoError

\* C2 (as claimed): at most one scheduled operation is awaiting delivery of
\* its completion, in every reachable state.
C2_AtMostOneInFlight == Cardinality(InFlight) <= 1

\* C3: cancelling a dialog ends the operation with DialogClosed before any
\* file is touched (DialogClosed is the result of no other step), and
\* processing that completion changes only the error field: path, content
\* and the filesystem stay as they were.
C3_CancelKeepsState ==
    [][\A i \in OpIds :
          /\ (ops[i].pc = "dialog" /\ ops'[i].pc = "ready")
                => /\ ops'[i].result = Err(DialogClosed)
                   /\ fs' = fs /\ path' = path /\ content' = content /\ error' = error
          /\ (ops'[i].result = Err(DialogClosed) /\ ops[i].result # Err(DialogClosed))
                => (ops[i].pc = "dialog" /\ fs' = fs)
          /\ (Delivers(i) /\ ops[i].result = Err(DialogClosed))
                => /\ ops[i].shown
                   /\ path' = path /\ content' = content /\ fs' = fs
                   /\ error' = DialogClosed]_vars

\* A cancelled save-dialog's completion processed while a file is open.
C3_Witness ==
    /\ last.ev = "FileSavedErr" /\ last.dlg
    /\ error = DialogClosed
    /\ path = default_file
    /\ ContentText(content) = <<233>>
    /\ fs[default_file] = File(<<195, 169>>)

\* C4: a Save processed while path is None starts with the save-dialog; the
\* filesystem is untouched until the dialog has returned a path, and the
\* write (truncation, then the bytes, call by call) goes to exactly that
\* path, which the completion carries once all the bytes are stored.
C4_SaveAsksThenWrites ==
    [][\A i \in OpIds :
          /\ (last'.ev = "Save" /\ last'.id = i /\ path = NoPath)
                => (ops'[i].kind = "save" /\ ops'[i].pc = "dialog" /\ fs' = fs)
          /\ (ops[i].kind = "save" /\ ops[i].arg = NoPath /\ ops[i].pc = "dialog"
              /\ ops'[i] # ops[i])
                => /\ fs' = fs /\ ops'[i].shown
                   /\ ops'[i].pc \in {"io", "ready"}
                   /\ ops'[i].pc = "io" => ops'[i].chosen \in Paths
          /\ (ops[i].kind = "save" /\ ops[i].arg = NoPath /\ ops[i].pc = "io"
              /\ ops'[i] # ops[i])
                => /\ ops[i].shown /\ ops[i].chosen \in Paths
                   /\ \/ /\ fs' = fs
                         /\ ops'[i].pc = "ready" /\ ops'[i].result.tag = "Err"
                      \/ /\ fs' = [fs EXCEPT ![ops[i].chosen] = File(<<>>)]
                         /\ ops'[i].pc = "write" /\ ops'[i].target = ops[i].chosen
          /\ (ops[i].kind = "save" /\ ops[i].arg = NoPath /\ ops[i].pc = "write"
              /\ ops'[i] # ops[i])
                => /\ ops[i].shown /\ ops[i].target = ops[i].chosen
                   /\ ops'[i].pc \in {"write", "ready"}
                   /\ \A q \in Paths \ {ops[i].chosen} : fs'[q] = fs[q]
                   /\ ops'[i].pc = "write"
                         => /\ ops'[i].target = ops[i].chosen
                            /\ ops'[i].chosen = ops[i].chosen
                            /\ ops'[i].written > ops[i].written
                            /\ fs'[ops[i].chosen] =
                                  File(Overlay(fs[ops[i].chosen].bytes, ops[i].written,
                                               SubSeq(Encode(ops[i].text),
                                                      ops[i].written + 1,
                                                      ops'[i].written)))
                   /\ ops'[i].result.tag = "Err" => fs' = fs
                   /\ ops'[i].result.tag = "Ok"
                         => /\ ops'[i].result = Ok(ops[i].chosen, <<>>)
                            /\ fs'[ops[i].chosen] =
                                  File(Overlay(fs[ops[i].chosen].bytes, ops[i].written,
                                               SubSeq(Encode(ops[i].text),
                                                      ops[i].written + 1,
                                                      Len(Encode(ops[i].text)))))]_vars

\* A save without a path has written the file the dialog named.
C4_Witness ==
    \E i \in OpIds :
        /\ ops[i].kind = "save" /\ ops[i].pc = "ready" /\ ops[i].shown
        /\ ops[i].result = Ok(NonUtf8Path, <<>>)
        /\ last.ev = "task"
        /\ ContentText(content) = <<233>>
        /\ fs[NonUtf8Path] = File(<<195, 169>>)

\* C5: a Save processed while path is Some(p) never shows a dialog; it
\* writes to p (truncation, then the bytes, call by call), and on success,
\* which comes only with all the bytes stored, its completion carries p.
C5_SaveWritesDirectly ==
    [][\A i \in OpIds :
          /\ (last'.ev = "Save" /\ last'.id = i /\ path # NoPath)
                => (ops'[i].kind = "save" /\ ops'[i].arg = path /\ ops'[i].pc = "io"
                    /\ ~ops'[i].shown /\ fs' = fs)
          /\ (ops[i].kind = "save" /\ ops[i].arg # NoPath /\ ops'[i] # ops[i])
                => /\ ~ops[i].shown /\ ~ops'[i].shown
                   /\ ops[i].pc \in {"io", "write", "ready"}
                   /\ ops[i].pc = "io"
                        => \/ /\ fs' = fs
                              /\ ops'[i].pc = "ready" /\ ops'[i].result.tag = "Err"
                           \/ /\ fs' = [fs EXCEPT ![ops[i].arg] = File(<<>>)]
                              /\ ops'[i].pc = "write" /\ ops'[i].target = ops[i].arg
                              /\ ops'[i].arg = ops[i].arg
                   /\ ops[i].pc = "write"
                        => /\ ops'[i].pc \in {"write", "ready"}
                           /\ ops[i].target = ops[i].arg
                           /\ \A q \in Paths \ {ops[i].arg} : fs'[q] = fs[q]
                           /\ ops'[i].pc = "write"
                                 => /\ ops'[i].target = ops[i].arg
                                    /\ ops'[i].arg = ops[i].arg
                                    /\ ops'[i].written > ops[i].written
                                    /\ fs'[ops[i].arg] =
                                          File(Overlay(fs[ops[i].arg].bytes,
                                                       ops[i].written,
                                                       SubSeq(Encode(ops[i].text),
                                                              ops[i].written + 1,
                                                              ops'[i].written)))
                           /\ ops'[i].result.tag = "Err" => fs' = fs
                           /\ ops'[i].result.tag = "Ok"
                                 => /\ ops'[i].result = Ok(ops[i].arg, <<>>)
                                    /\ fs'[ops[i].arg] =
                                          File(Overlay(fs[ops[i].arg].bytes,
                                                       ops[i].written,
                                                       SubSeq(Encode(ops[i].text),
                                                              ops[i].written + 1,
                                                              Len(Encode(ops[i].text)))))]_vars

\* A save with a path has overwritten that file with the edited text,
\* without a dialog.
C5_Witness ==
    \E i \in OpIds :
        /\ ops[i].kind = "save" /\ ops[i].pc = "ready" /\ ~ops[i].shown
        /\ ops[i].result = Ok(default_file, <<>>)
        /\ last.ev = "task"
        /\ path = default_file /\ ContentText(content) = <<97>>
        /\ fs[default_file] = File(<<97>>)

\* C6 (as claimed): a load that succeeds puts into the document the content
\* the file had when it was read, and the file's path into path: the text a
\* read returns encodes to bytes that were all the file held at one of its
\* read calls, and FileOpened(Ok) makes that text the document.
C6_LoadRoundTrips ==
    [][\A i \in OpIds :
          /\ (ops[i].kind \in {"load", "pick"} /\ ops[i].pc = "read"
              /\ ops'[i].pc = "ready" /\ ops'[i].result.tag = "Ok")
                => /\ ops'[i].result.path = ops[i].target
                   /\ Encode(ops'[i].result.text) = ops[i].buf
                   /\ ops[i].whole \/ ops[i].buf = fs[ops[i].target].bytes
          /\ (Delivers(i) /\ ops[i].kind \in {"load", "pick"} /\ ops[i].result.tag = "Ok")
                => /\ ContentText(content') = ops[i].result.text
                   /\ path' = ops[i].result.path]_vars

\* C7: processing Edit(action) applies that action to the document, sets
\* error to None and leaves path (and the operations and files) alone.
C7_EditClearsError ==
    [][last'.ev = "Edit"
          => /\ last'.act \in Actions
             /\ content' = ContentEdit(content, last'.act)
             /\ error' = NoError
             /\ path' = path /\ ops' = ops /\ fs' = fs]_vars

\* An insertion processed after the startup load failed and no other
\* operation was scheduled: the recorded error is gone.
C7_Witness ==
    /\ last.ev = "Edit" /\ last.act.op = "Insert"
    /\ ContentText(content) = <<233>>
    /\ error = NoError
    /\ fs[default_file] = NoFile
    /\ ops[1].delivered = 1
    /\ \A i \in OpIds \ {1} : ops[i] = Idle

\* C8: processing an error completion of either operation, be the error
\* DialogClosed or IOFailed of whatever kind, records that error and leaves
\* path and content (and the files) as they were, also when the failed save
\* had a path chosen in the dialog.
C8_ErrorOnlyRecorded ==
    [][\A i \in OpIds :
          (Delivers(i) /\ ops[i].result.tag = "Err")
             => /\ ops[i].result.err.tag \in {"DialogClosed", "IOFailed"}
                /\ last'.ev = (IF ops[i].kind = "save" THEN "FileSavedErr"
                               ELSE "FileOpenedErr")
                /\ error' = ops[i].result.err
                /\ path' = path /\ content' = content /\ fs' = fs]_vars

\* A save that asked for a path and then failed to write has been
\* processed: the path is still None and the text is still there.
C8_Witness ==
    /\ last.ev = "FileSavedErr" /\ last.dlg
    /\ error = IOFailed("PermissionDenied")
    /\ path = NoPath
    /\ ContentText(content) = <<97>>
    /\ ops[1].pc = "ready"

\* C9 (as claimed): whenever the error field holds an error, the status
\* line shows that error, not the path or the "New file" label.
C9_StatusShowsError ==
    error # NoError => status_bar(error, path).shows = "error"

C11_EventsAlwaysAccepted ==
    /\ ENABLED Edit
    /\ ENABLED New
    /\ FreeId # 0 => (ENABLED Open /\ ENABLED Save)

\* Open has just been accepted with an error on record and is now in flight.
C11_Witness ==
    /\ last.ev = "Open"
    /\ error = IOFailed("NotFound")
    /\ ops[last.id].kind = "pick" /\ ops[last.id].pc = "dialog"
    /\ ops[1].delivered = 1

\* C12: path changes only when New is processed (to None) or when a
\* successful completion is processed (to the path it carries, which is the
\* path of the file read or written); Edit, Open, Save, error completions and
\* the background steps leave it alone.
C12_PathSetOnlyBySuccess ==
    [][/\ last'.ev = "New" => path' = NoPath
       /\ \A i \in OpIds :
             (Delivers(i) /\ ops[i].result.tag = "Ok")
                => /\ path' = ops[i].result.path
                   /\ ops[i].result.path \in Paths
       /\ \A i \in OpIds :
             (ops[i].pc # "ready" /\ ops'[i].pc = "ready"
              /\ ops'[i].result.tag = "Ok")
                => /\ ops[i].pc \in {"read", "write"}
                   /\ ops'[i].result.path = ops[i].target
                   /\ ops[i].target =
                         (IF ops[i].kind = "load" THEN default_file
                          ELSE IF ops[i].kind = "pick" THEN ops[i].chosen
                          ELSE SaveTarget(ops[i]))
       /\ path' # path
             => \/ last'.ev = "New"
                \/ /\ last'.ev \in {"FileOpenedOk", "FileSavedOk"}
                   /\ last'.id \in OpIds
                   /\ Delivers(last'.id) /\ ops[last'.id].result.tag = "Ok"
       /\ last'.ev \in {"Edit", "Open", "Save", "FileOpenedErr", "FileSavedErr",
                        "task"}
             => path' = path]_vars

\* The path is the one a save-dialog returned, after the successful save's
\* completion was processed.
C12_Witness ==
    /\ last.ev = "FileSavedOk" /\ last.dlg
    /\ path = NonUtf8Path
    /\ fs[NonUtf8Path].exists

\* C13: processing Open or Save only schedules one operation: path, content,
\* error and the files are as before; path, content and error change only in
\* update()'s Edit, New and completion arms, never in a background step.
C13_OpenSaveOnlySchedule ==
    [][/\ last'.ev \in {"Open", "Save"}
             => /\ path' = path /\ content' = content /\ error' = error /\ fs' = fs
                /\ last'.id \in OpIds
                /\ ops[last'.id] = Idle
                /\ ops'[last'.id].kind = (IF last'.ev = "Open" THEN "pick" ELSE "save")
                /\ ops'[last'.id].pc \in {"dialog", "io"}
                /\ \A j \in OpIds \ {last'.id} : ops'[j] = ops[j]
       /\ <<path, content, error>>' # <<path, content, error>>
             => last'.ev \in {"Edit", "New", "FileOpenedOk", "FileOpenedErr",
                              "FileSavedOk", "FileSavedErr"}]_vars

\* Save has just been processed with a file open and an edited text; both
\* are still there and the operation waits for its write.
C13_Witness ==
    /\ last.ev = "Save"
    /\ path = default_file
    /\ ContentText(content) = <<97>>
    /\ ops[last.id].text = <<97>> /\ ops[last.id].pc = "io"

\* C14: a save works on the snapshot taken when Save is processed: the text
\* and the path handed to save_file are the content and path of that moment,
\* they stay fixed while the operation is in flight, the dialog is shown only
\* if that path was None, and the write stores exactly that text: every
\* write call stores the next bytes of it, and Ok comes with the last ones.
C14_SaveWritesSnapshot ==
    [][\A i \in OpIds :
          /\ (last'.ev = "Save" /\ last'.id = i)
                => /\ ops'[i].text = ContentText(content)
                   /\ ops'[i].arg = path
                   /\ ops'[i].pc = (IF path = NoPath THEN "dialog" ELSE "io")
          /\ (ops[i].kind = "save" /\ ops'[i].pc \in {"dialog", "io", "write"})
                => (ops'[i].text = ops[i].text /\ ops'[i].arg = ops[i].arg)
          /\ (ops[i].kind = "save" /\ ops[i].pc = "dialog" /\ ops'[i] # ops[i])
                => ops[i].arg = NoPath
          /\ (ops[i].kind = "save" /\ ops[i].pc = "io" /\ ops'[i].pc = "write")
                => /\ ops'[i].target = (IF ops[i].arg # NoPath THEN ops[i].arg
                                        ELSE ops[i].chosen)
                   /\ fs' = [fs EXCEPT ![ops'[i].target] = File(<<>>)]
          /\ (ops[i].kind = "save" /\ ops[i].pc = "write" /\ ops'[i] # ops[i])
                => LET bytes == Encode(ops[i].text)
                       was == fs[ops[i].target].bytes
                       w == ops[i].written
                       w2 == ops'[i].written
                   IN  /\ w <= Len(bytes)
                       /\ ops'[i].pc \in {"write", "ready"}
                       /\ ops'[i].pc = "write"
                             => /\ w < w2 /\ w2 < Len(bytes)
                                /\ ops'[i].target = ops[i].target
                                /\ fs' = [fs EXCEPT ![ops[i].target] =
                                             File(Overlay(was, w, SubSeq(bytes, w + 1, w2)))]
                                /\ was = SubSeq(bytes, 1, w)
                                      => fs'[ops[i].target] = File(SubSeq(bytes, 1, w2))
                       /\ ops'[i].result.tag = "Err" => fs' = fs
                       /\ ops'[i].result.tag = "Ok"
                             => /\ ops'[i].result = Ok(ops[i].target, <<>>)
                                /\ fs' = [fs EXCEPT ![ops[i].target] =
                                             File(Overlay(was, w,
                                                          SubSeq(bytes, w + 1, Len(bytes))))]
                                /\ was = SubSeq(bytes, 1, w)
                                      => fs'[ops[i].target] = File(bytes)]_vars

\* A save taken with the default file open and the text "a" has written
\* "a" to that file although New emptied the editor before the write.
C14_Witness ==
    \E i \in OpIds :
        /\ ops[i].kind = "save" /\ ops[i].pc = "ready" /\ ~ops[i].shown
        /\ ops[i].result = Ok(default_file, <<>>)
        /\ fs[default_file] = File(<<97>>)
        /\ last.ev = "task"
        /\ path = NoPath /\ ContentText(content) = <<>>

\* C15: a successful completion is applied whatever the editor holds by
\* then: FileOpened(Ok(p, t)) makes the document exactly t and the path p;
\* FileSaved(Ok(p)) makes the path p and leaves the document as it is.
C15_CompletionsUnconditional ==
    [][\A i \in OpIds :
          (Delivers(i) /\ ops[i].result.tag = "Ok")
             => IF ops[i].kind = "save"
                THEN /\ path' = ops[i].result.path
                     /\ content' = content /\ error' = error
                ELSE /\ path' = ops[i].result.path
                     /\ ContentText(content') = ops[i].result.text
                     /\ error' = error]_vars

\* The startup load's completion has replaced a document that was edited
\* and saved under another name while the load was in flight.
C15_Witness ==
    /\ last.ev = "FileOpenedOk" /\ last.id = 1
    /\ path = default_file
    /\ ContentText(content) = <<233>>
    /\ fs[NonUtf8Path] = File(<<97>>)
    /\ ops[2].delivered = 1

\* C16: the error field changes only when Edit is processed (to None) or an
\* error completion is processed (to its error); New, Open, Save, successful
\* completions and background steps leave it as it is.
C16_OnlyEditClearsError ==
    [][/\ last'.ev \in {"New", "Open", "Save", "FileOpenedOk", "FileSavedOk",
                        "task"}
             => error' = error
       /\ error' # error
             => \/ last'.ev = "Edit" /\ error' = NoError
                \/ /\ last'.ev \in {"FileOpenedErr", "FileSavedErr"}
                   /\ last'.id \in OpIds
                   /\ error' = ops[last'.id].result.err
                   /\ error' # NoError]_vars

\* The startup load failed, and a later save succeeded and was processed:
\* the load's error is still on record.
C16_Witness ==
    /\ last.ev = "FileSavedOk"
    /\ error = IOFailed("InvalidData")
    /\ path = NonUtf8Path
    /\ ops[1].delivered = 1

\* C17: the editor starts with no path, an empty document, no error and one
\* operation scheduled: a load of the default file.  That operation never
\* shows a dialog, reads the default file, and its completion is a
\* FileOpened: Ok with the default file's path, or an I/O error.
C17_StartupLoad ==
    /\ last.ev = "new"
          => /\ path = NoPath /\ content = ContentNew /\ error = NoError
             /\ ops[1] = [Idle EXCEPT !.kind = "load", !.pc = "io", !.arg = default_file]
             /\ \A i \in OpIds \ {1} : ops[i] = Idle
    /\ \A i \in OpIds : ops[i].kind = "load" => i = 1
    /\ ops[1].kind \in {"load", "none"}
    /\ ops[1].kind = "load"
          => /\ ~ops[1].shown /\ ops[1].chosen = NoPath
             /\ ops[1].pc \in {"io", "size", "read", "ready"}
             /\ ops[1].pc \in {"io", "size", "read"}
                   => (ops[1].arg = default_file /\ LoadTarget(ops[1]) = default_file)
             /\ ops[1].pc \in {"size", "read"} => ops[1].target = default_file
             /\ ops[1].pc = "ready"
                   => \/ /\ ops[1].result.tag = "Ok"
                         /\ ops[1].result.path = default_file
                      \/ /\ ops[1].result.tag = "Err"
                         /\ ops[1].result.err.tag = "IOFailed"
    /\ ops[1].kind = "none" => (ops[1].pc = "idle" /\ ops[1].delivered = 1)
    /\ last.id = 1
          => /\ last.ev \in {"FileOpenedOk", "FileOpenedErr"}
             /\ ~last.dlg
             /\ last.ev = "FileOpenedErr" => error.tag = "IOFailed"
             /\ last.ev = "FileOpenedOk" => path = default_file

\* The startup load's successful completion has just been processed.
C17_Witness ==
    /\ last.ev = "FileOpenedOk" /\ last.id = 1
    /\ path = default_file
    /\ ContentText(content) = <<233>>
    /\ \A i \in OpIds \ {1} : ops[i] = Idle

\* C18: an operation's result is DialogClosed exactly when its dialog was
\* shown and cancelled, and then no file call was made and no file changed;
\* it is IOFailed(kind) exactly when read_to_string or fs::write returned an
\* error, with the kind of that error, whichever kind it is; a read or write
\* that returned Ok gives Ok (the text read, the path written).
C18_ErrorKindMapping ==
    [][\A i \in OpIds :
          (ops[i].pc # "ready" /\ ops'[i].pc = "ready")
             => LET op == ops[i]
                    res == ops'[i].result
                    ret == last'.ret
                    p == IF op.kind = "load" THEN op.arg ELSE op.chosen
                IN  /\ res.tag \in {"Ok", "Err"}
                    /\ res.tag = "Err" => res.err.tag \in {"DialogClosed", "IOFailed"}
                    /\ (res = Err(DialogClosed)) = (op.pc = "dialog")
                    /\ op.pc = "dialog"
                          => /\ fs' = fs /\ ops'[i].shown /\ ret = NoReturn
                             /\ op.kind = "pick" \/ (op.kind = "save" /\ op.arg = NoPath)
                    /\ op.pc # "dialog"
                          => /\ op.pc \in {"io", "size", "read", "write"}
                             /\ ret \in {"Ok"} \cup ErrorKinds
                             /\ (res.tag = "Ok") = (ret = "Ok")
                             /\ (res.tag = "Err") = (ret \in ErrorKinds)
                             /\ ret \in ErrorKinds => res = Err(IOFailed(ret))
                    /\ (op.pc \in {"io", "size", "read"} /\ op.kind \in {"load", "pick"})
                          => /\ fs' = fs /\ p \in Paths
                             /\ ret = "Ok"
                                   => /\ op.pc = "read" /\ op.target = p
                                      /\ ValidUtf8(op.buf)
                                      /\ res = Ok(p, Decode(op.buf))
                                      /\ Encode(res.text) = op.buf
                    /\ op.kind = "save"
                          => /\ op.pc = "io" => (fs' = fs /\ ret # "Ok")
                             /\ ret \in ErrorKinds => fs' = fs
                             /\ ret = "Ok"
                                   => /\ op.pc = "write"
                                      /\ res = Ok(op.target, <<>>)
                                      /\ fs'[op.target] =
                                            File(Overlay(fs[op.target].bytes, op.written,
                                                         SubSeq(Encode(op.text),
                                                                op.written + 1,
                                                                Len(Encode(op.text)))))]_vars

\* The file picker returned a file that does not exist: the dialog was
\* shown, yet the error is the read's NotFound, not DialogClosed.
C18_Witness ==
    \E i \in OpIds :
        /\ ops[i].kind = "pick" /\ ops[i].pc = "ready" /\ ops[i].shown
        /\ ops[i].result = Err(IOFailed("NotFound"))
        /\ last.ev = "task"
        /\ ~fs[NonUtf8Path].exists

=============================================================================
